---- MODULE Spec2Model ----
(***************************************************************************)
(* Model of src/main.rs of atmosphere: a BME680 sampler that reads its     *)
(* configuration, configures the sensor, waits for it to stabilise and     *)
(* then loops { forced-mode trigger, read, build four points, write to     *)
(* InfluxDB, sleep }.  `pc` is the position of main(); every fallible call *)
(* of main() is one action whose outcome is chosen by the environment.     *)
(* Durations are in milliseconds.  Temperature offsets are in thousandths  *)
(* of a degree.                                                            *)
(***************************************************************************)
EXTENDS Integers, Sequences, FiniteSets, TLC

\* ---------------------------------------------------------------- bounds
\* Number of loop iterations explored.
MaxCycles == 3
\* Largest small profile duration (ms) the sensor may report, besides 1500.
MaxProfile == 2

\* ------------------------------------------------------ program constants
\* profile_dur *= 3
Multiplier == 3
\* sleep(Duration::from_secs(5*60)), in ms
WarmUpMillis == 300000
\* Duration::from_millis(1500) of the gas measurement; also the profile
\* duration of the spec's end-to-end scenario
GasHeaterMillis == 1500

\* ------------------------------------------------------------ environment
\* Result<String, _> of dotenv::var: ok = FALSE stands for Err.
Absent == [ok |-> FALSE, val |-> ""]
Present(v) == [ok |-> TRUE, val |-> v]
AbsentChars == [ok |-> FALSE, val |-> <<>>]
PresentChars(s) == [ok |-> TRUE, val |-> s]

\* Values the TEMP_OFFSET variable takes in the model, as character
\* sequences: "1.5", "-2", "abc" and the empty string.
OffsetInputs ==
    { <<"1", ".", "5">>, <<"-", "2">>, <<"a", "b", "c">>, <<>> }

HostInputs == {"pi", "lab"}

Environments ==
    [ dotenv_file : BOOLEAN,
      INFLUX_TOKEN : {Absent, Present("token")},
      INFLUX_BUCKET : {Absent, Present("bucket")},
      INFLUX_ADDRESS : {Absent, Present("address")},
      INFLUX_ORGANIZATION : {Absent, Present("org")},
      HOSTNAME : {Absent} \cup {Present(h) : h \in HostInputs},
      TEMP_OFFSET : {AbsentChars} \cup {PresentChars(s) : s \in OffsetInputs} ]

\* --------------------------------------------------------- str::parse::<f32>
Digits == {"0", "1", "2", "3", "4", "5", "6", "7", "8", "9"}

DigitValue(c) ==
    CASE c = "0" -> 0 [] c = "1" -> 1 [] c = "2" -> 2 [] c = "3" -> 3
      [] c = "4" -> 4 [] c = "5" -> 5 [] c = "6" -> 6 [] c = "7" -> 7
      [] c = "8" -> 8 [] c = "9" -> 9

IsDigits(s) == \A i \in 1..Len(s) : s[i] \in Digits

RECURSIVE DecimalValue(_)
DecimalValue(s) ==
    IF Len(s) = 0 THEN 0
    ELSE 10 * DecimalValue(SubSeq(s, 1, Len(s) - 1)) + DigitValue(s[Len(s)])

\* Decimal literals [+-]? digits* (. digits*)? with at least one digit; the
\* result is in thousandths.  Exponents, "inf" and "nan" are not among the
\* inputs of the model, and neither are more than three fractional digits.
parse_f32(s) ==
    LET signed == Len(s) > 0 /\ s[1] \in {"+", "-"}
        neg == Len(s) > 0 /\ s[1] = "-"
        body == IF signed THEN Tail(s) ELSE s
        dots == {i \in 1..Len(body) : body[i] = "."}
        dot == IF dots = {} THEN Len(body) + 1 ELSE CHOOSE i \in dots : TRUE
        ip == SubSeq(body, 1, dot - 1)
        fp == SubSeq(body, dot + 1, Len(body))
        wellformed == /\ Cardinality(dots) <= 1
                      /\ IsDigits(ip) /\ IsDigits(fp)
                      /\ Len(ip) + Len(fp) > 0
                      /\ Len(fp) <= 3
        pad == [i \in 1..(3 - Len(fp)) |-> "0"]
        milli == 1000 * DecimalValue(ip) + DecimalValue(fp \o pad)
    IN IF wellformed
       THEN [ok |-> TRUE, val |-> IF neg THEN 0 - milli ELSE milli]
       ELSE [ok |-> FALSE, val |-> 0]

\* ------------------------------------------------------------------ sensor
\* FieldDataCondition of the bme680 crate.
FieldDataCondition == {"NewData", "Unchanged"}

\* FieldData, by the four accessors main() reads (tenths of the unit for
\* temperature, humidity and pressure).
Readings ==
    { [temperature_celsius |-> 225, humidity_percent |-> 450,
       pressure_hpa |-> 10132, gas_resistance_ohm |-> 12000],
      [temperature_celsius |-> 198, humidity_percent |-> 602,
       pressure_hpa |-> 9987, gas_resistance_ohm |-> 8400] }

NoData ==
    [temperature_celsius |-> 0, humidity_percent |-> 0,
     pressure_hpa |-> 0, gas_resistance_ohm |-> 0]

\* Durations get_profile_dur may return.
ProfileDurs == (0..MaxProfile) \cup {GasHeaterMillis}

\* ------------------------------------------------------------------ points
PointNames ==
    <<"temperature_c", "relative_humidity", "pressure_hpa", "gas_resistance_ohms">>

FieldValue(d, k) ==
    CASE k = 1 -> d.temperature_celsius
      [] k = 2 -> d.humidity_percent
      [] k = 3 -> d.pressure_hpa
      [] k = 4 -> d.gas_resistance_ohm

\* The error! message of each element of vec![..]
PointErrors ==
    <<"Failed to create data point temperature_c",
      "Failed to create data point relative_humidity",
      "Failed to create data point pressure_hpa",
      "Failed to create data point gas_resistance_ohms">>

\* DataPoint::builder(name).tag("host", host).field("value", v).build()
DataPoint(name, host, v) ==
    [measurement |-> name, tags |-> <<[key |-> "host", value |-> host]>>,
     fields |-> <<[key |-> "value", value |-> v]>>]

\* ------------------------------------------------------------------- state
VARIABLES
    env,                 \* the .env file and process environment
    pc,                  \* position in main()
    ret,                 \* outcome of the last fallible call: "Ok" / "Err"
    log,                 \* the last error! message
    result,              \* "running", or the value main() returned
    influx_token, influx_bucket, influx_address, influx_organization,
    host_tag, temperature_offset,
    i2c,                 \* TRUE once /dev/i2c-1 is open
    dev,                 \* the Bme680 and the calls made on it
    profile,             \* the duration get_profile_dur returned
    profile_dur,         \* the local of main()
    client,              \* TRUE once the influxdb client is built
    warmed,              \* number of completed warm-up sleeps
    slept,               \* duration of the last completed sleep
    sleeps,              \* number of completed sleep(profile_dur)
    cycle,               \* number of the current loop iteration
    data, state,         \* (data, state) of this iteration
    points,              \* the vec! being built
    inflight,            \* client.write calls not yet completed
    writes               \* every client.write call made so far

cfgVars == <<influx_token, influx_bucket, influx_address, influx_organization,
             host_tag, temperature_offset>>
hwVars == <<i2c, dev, profile, profile_dur, client>>
loopVars == <<cycle, data, state, points, inflight, writes>>
vars == <<env, pc, ret, log, result, cfgVars, hwVars, warmed, slept, sleeps, loopVars>>

StartupPcs ==
    {"dotenv", "INFLUX_TOKEN", "INFLUX_BUCKET", "INFLUX_ADDRESS",
     "INFLUX_ORGANIZATION", "HOSTNAME", "TEMP_OFFSET", "I2cdev_new",
     "Bme680_init", "set_sensor_settings", "get_profile_dur", "triple",
     "Client_new"}
LoopPcs ==
    {"set_sensor_mode", "get_sensor_data", "check_state", "build_point",
     "write", "write_await", "sleep"}

Init ==
    /\ env \in Environments
    /\ pc = "dotenv"
    /\ ret = "Ok"
    /\ log = ""
    /\ result = "running"
    /\ influx_token = "" /\ influx_bucket = ""
    /\ influx_address = "" /\ influx_organization = ""
    /\ host_tag = "" /\ temperature_offset = 0
    /\ i2c = FALSE
    /\ dev = [inited |-> FALSE, settings |-> 0, profile_durs |-> 0,
              mode_sets |-> 0, reads |-> 0]
    /\ profile = 0 /\ profile_dur = 0
    /\ client = FALSE
    /\ warmed = 0 /\ slept = 0 /\ sleeps = 0
    /\ cycle = 0 /\ data = NoData /\ state = "none"
    /\ points = <<>> /\ inflight = 0 /\ writes = <<>>

\* `.map_err(|e| error!(msg))?` on an Err: log, return Err(()) from main.
Fail(msg) ==
    /\ ret' = "Err"
    /\ log' = msg
    /\ result' = "Err"
    /\ pc' = "exited"

\* The same on an Ok: fall through to the next statement.
Pass(next) ==
    /\ ret' = "Ok"
    /\ pc' = next
    /\ UNCHANGED <<log, result>>

\* ----------------------------------------------------------------- startup
\* Variant of LoadDotenv: the bus is opened before the configuration is read.
LoadDotenv_BusFirst ==
    /\ pc = "dotenv"
    /\ i2c' = TRUE
    /\ IF env.dotenv_file
       THEN Pass("INFLUX_TOKEN")
       ELSE Fail("Failed to load .env file for configuration")
    /\ UNCHANGED <<env, cfgVars, dev, profile, profile_dur, client,
                   warmed, slept, sleeps, loopVars>>

\* dotenv::dotenv().map_err(..)?
LoadDotenv ==
    /\ pc = "dotenv"
    /\ IF env.dotenv_file
       THEN Pass("INFLUX_TOKEN")
       ELSE Fail("Failed to load .env file for configuration")
    /\ UNCHANGED <<env, cfgVars, hwVars, warmed, slept, sleeps, loopVars>>

\* var("INFLUX_TOKEN").map_err(..)?
LoadInfluxToken ==
    /\ pc = "INFLUX_TOKEN"
    /\ IF env.INFLUX_TOKEN.ok
       THEN Pass("INFLUX_BUCKET") /\ influx_token' = env.INFLUX_TOKEN.val
       ELSE Fail("Failed to load INFLUX_TOKEN") /\ UNCHANGED influx_token
    /\ UNCHANGED <<env, influx_bucket, influx_address, influx_organization,
                   host_tag, temperature_offset, hwVars, warmed, slept, sleeps, loopVars>>

\* var("INFLUX_BUCKET").map_err(..)?
LoadInfluxBucket ==
    /\ pc = "INFLUX_BUCKET"
    /\ IF env.INFLUX_BUCKET.ok
       THEN Pass("INFLUX_ADDRESS") /\ influx_bucket' = env.INFLUX_BUCKET.val
       ELSE Fail("Failed to load INFLUX_BUCKET") /\ UNCHANGED influx_bucket
    /\ UNCHANGED <<env, influx_token, influx_address, influx_organization,
                   host_tag, temperature_offset, hwVars, warmed, slept, sleeps, loopVars>>

\* var("INFLUX_ADDRESS").map_err(..)?  The message names INFLUX_BUCKET.
LoadInfluxAddress ==
    /\ pc = "INFLUX_ADDRESS"
    /\ IF env.INFLUX_ADDRESS.ok
       THEN Pass("INFLUX_ORGANIZATION") /\ influx_address' = env.INFLUX_ADDRESS.val
       ELSE Fail("Failed to load INFLUX_BUCKET") /\ UNCHANGED influx_address
    /\ UNCHANGED <<env, influx_token, influx_bucket, influx_organization,
                   host_tag, temperature_offset, hwVars, warmed, slept, sleeps, loopVars>>

\* var("INFLUX_ORGANIZATION").map_err(..)?
LoadInfluxOrganization ==
    /\ pc = "INFLUX_ORGANIZATION"
    /\ IF env.INFLUX_ORGANIZATION.ok
       THEN Pass("HOSTNAME") /\ influx_organization' = env.INFLUX_ORGANIZATION.val
       ELSE Fail("Failed to load INFLUX_ORGANIZATION") /\ UNCHANGED influx_organization
    /\ UNCHANGED <<env, influx_token, influx_bucket, influx_address,
                   host_tag, temperature_offset, hwVars, warmed, slept, sleeps, loopVars>>

\* Variant of LoadHostTag: HOSTNAME is required like the INFLUX_ variables.
LoadHostTag_Required ==
    /\ pc = "HOSTNAME"
    /\ IF env.HOSTNAME.ok
       THEN Pass("TEMP_OFFSET") /\ host_tag' = env.HOSTNAME.val
       ELSE Fail("Failed to load HOSTNAME") /\ UNCHANGED host_tag
    /\ UNCHANGED <<env, influx_token, influx_bucket, influx_address,
                   influx_organization, temperature_offset,
                   hwVars, warmed, slept, sleeps, loopVars>>

\* var("HOSTNAME").unwrap_or_else(|_| "unknown".into()): cannot fail.
LoadHostTag ==
    /\ pc = "HOSTNAME"
    /\ host_tag' = IF env.HOSTNAME.ok THEN env.HOSTNAME.val ELSE "unknown"
    /\ pc' = "TEMP_OFFSET"
    /\ UNCHANGED <<env, ret, log, result, influx_token, influx_bucket,
                   influx_address, influx_organization, temperature_offset,
                   hwVars, warmed, slept, sleeps, loopVars>>

\* var("TEMP_OFFSET").unwrap_or_else(|_| "0".into()).parse().map_err(..)?
LoadTemperatureOffset ==
    /\ pc = "TEMP_OFFSET"
    /\ LET text == IF env.TEMP_OFFSET.ok THEN env.TEMP_OFFSET.val ELSE <<"0">>
           parsed == parse_f32(text)
       IN IF parsed.ok
          THEN Pass("I2cdev_new") /\ temperature_offset' = parsed.val
          ELSE /\ Fail("Failed to load temp offset from TEMP_OFFSET")
               /\ UNCHANGED temperature_offset
    /\ UNCHANGED <<env, influx_token, influx_bucket, influx_address,
                   influx_organization, host_tag, hwVars, warmed, slept, sleeps, loopVars>>

\* I2cdev::new("/dev/i2c-1").map_err(..)?
OpenI2c ==
    /\ pc = "I2cdev_new"
    /\ \E ok \in BOOLEAN :
          IF ok
          THEN Pass("Bme680_init") /\ i2c' = TRUE
          ELSE Fail("Failed to load I2C device") /\ UNCHANGED i2c
    /\ UNCHANGED <<env, cfgVars, dev, profile, profile_dur, client,
                   warmed, slept, sleeps, loopVars>>

\* Bme680::init(i2c, &mut delayer, I2CAddress::Secondary).map_err(..)?
InitBme680 ==
    /\ pc = "Bme680_init"
    /\ \E ok \in BOOLEAN :
          IF ok
          THEN Pass("set_sensor_settings") /\ dev' = [dev EXCEPT !.inited = TRUE]
          ELSE Fail("Failed to init BME680.") /\ UNCHANGED dev
    /\ UNCHANGED <<env, cfgVars, i2c, profile, profile_dur, client,
                   warmed, slept, sleeps, loopVars>>

\* Variant of SetSensorSettings: the rejection is logged and startup goes on.
SetSensorSettings_Ignored ==
    /\ pc = "set_sensor_settings"
    /\ dev' = [dev EXCEPT !.settings = @ + 1]
    /\ \E ok \in BOOLEAN :
          /\ ret' = IF ok THEN "Ok" ELSE "Err"
          /\ log' = IF ok THEN log ELSE "Failed to set BME680 sensor settings."
    /\ pc' = "get_profile_dur"
    /\ UNCHANGED <<env, result, cfgVars, i2c, profile, profile_dur, client,
                   warmed, slept, sleeps, loopVars>>

\* dev.set_sensor_settings(&mut delayer, settings).map_err(..)?
SetSensorSettings ==
    /\ pc = "set_sensor_settings"
    /\ dev' = [dev EXCEPT !.settings = @ + 1]
    /\ \E ok \in BOOLEAN :
          IF ok
          THEN Pass("get_profile_dur")
          ELSE Fail("Failed to set BME680 sensor settings.")
    /\ UNCHANGED <<env, cfgVars, i2c, profile, profile_dur, client,
                   warmed, slept, sleeps, loopVars>>

\* let mut profile_dur = dev.get_profile_dur(&settings.0).map_err(..)?
GetProfileDur ==
    /\ pc = "get_profile_dur"
    /\ dev' = [dev EXCEPT !.profile_durs = @ + 1]
    /\ \/ \E p \in ProfileDurs :
             /\ Pass("triple")
             /\ profile' = p
             /\ profile_dur' = p
       \/ /\ Fail("Failed to get profile duration")
          /\ UNCHANGED <<profile, profile_dur>>
    /\ UNCHANGED <<env, cfgVars, i2c, client, warmed, slept, sleeps, loopVars>>

\* Variant of TripleProfileDur: the margin is added, not multiplied.
TripleProfileDur_Added ==
    /\ pc = "triple"
    /\ profile_dur' = profile_dur + Multiplier
    /\ pc' = "Client_new"
    /\ UNCHANGED <<env, ret, log, result, cfgVars, i2c, dev, profile, client,
                   warmed, slept, sleeps, loopVars>>

\* profile_dur *= 3.  Duration holds u64 seconds; the driver computes the
\* profile in 32-bit milliseconds, so the product is far from overflowing.
TripleProfileDur ==
    /\ pc = "triple"
    /\ profile_dur' = profile_dur * Multiplier
    /\ pc' = "Client_new"
    /\ UNCHANGED <<env, ret, log, result, cfgVars, i2c, dev, profile, client,
                   warmed, slept, sleeps, loopVars>>

\* influxdb2_client::Client::new(influx_address, influx_token): cannot fail.
NewClient ==
    /\ pc = "Client_new"
    /\ client' = TRUE
    /\ pc' = "warmup_sleep"
    /\ UNCHANGED <<env, ret, log, result, cfgVars, i2c, dev, profile,
                   profile_dur, warmed, slept, sleeps, loopVars>>

\* sleep(Duration::from_secs(5*60)).await
WarmUp ==
    /\ pc = "warmup_sleep"
    /\ warmed' = warmed + 1
    /\ slept' = WarmUpMillis
    /\ pc' = "set_sensor_mode"
    /\ UNCHANGED <<env, ret, log, result, cfgVars, hwVars, sleeps, loopVars>>

\* -------------------------------------------------------------------- loop
\* Variant of SetSensorMode: the settings are applied again in every
\* iteration before the trigger.
SetSensorMode_Reconfigured ==
    /\ pc = "set_sensor_mode"
    /\ cycle < MaxCycles
    /\ cycle' = cycle + 1
    /\ data' = NoData /\ state' = "none" /\ points' = <<>>
    /\ dev' = [dev EXCEPT !.mode_sets = @ + 1, !.settings = @ + 1]
    /\ \E ok \in BOOLEAN :
          IF ok
          THEN Pass("get_sensor_data")
          ELSE Fail("Failed to set PowerMode::ForcedMode")
    /\ UNCHANGED <<env, cfgVars, i2c, profile, profile_dur, client,
                   warmed, slept, sleeps, inflight, writes>>

\* Variant of SetSensorMode: a rejected mode set is logged and the read is
\* made all the same.
SetSensorMode_Ignored ==
    /\ pc = "set_sensor_mode"
    /\ cycle < MaxCycles
    /\ cycle' = cycle + 1
    /\ data' = NoData /\ state' = "none" /\ points' = <<>>
    /\ dev' = [dev EXCEPT !.mode_sets = @ + 1]
    /\ \E ok \in BOOLEAN :
          /\ ret' = IF ok THEN "Ok" ELSE "Err"
          /\ log' = IF ok THEN log ELSE "Failed to set PowerMode::ForcedMode"
    /\ pc' = "get_sensor_data"
    /\ UNCHANGED <<env, result, cfgVars, i2c, profile, profile_dur, client,
                   warmed, slept, sleeps, inflight, writes>>

\* Top of `loop`: dev.set_sensor_mode(&mut delayer, ForcedMode).map_err(..)?
\* The locals of the previous iteration are gone.
SetSensorMode ==
    /\ pc = "set_sensor_mode"
    /\ cycle < MaxCycles
    /\ cycle' = cycle + 1
    /\ data' = NoData /\ state' = "none" /\ points' = <<>>
    /\ dev' = [dev EXCEPT !.mode_sets = @ + 1]
    /\ \E ok \in BOOLEAN :
          IF ok
          THEN Pass("get_sensor_data")
          ELSE Fail("Failed to set PowerMode::ForcedMode")
    /\ UNCHANGED <<env, cfgVars, i2c, profile, profile_dur, client,
                   warmed, slept, sleeps, inflight, writes>>

\* let (data, state) = dev.get_sensor_data(&mut delayer).map_err(..)?
GetSensorData ==
    /\ pc = "get_sensor_data"
    /\ dev' = [dev EXCEPT !.reads = @ + 1]
    /\ \/ \E d \in Readings, st \in FieldDataCondition :
             /\ Pass("check_state")
             /\ data' = d
             /\ state' = st
       \/ /\ Fail("Failed to get sensor reading")
          /\ UNCHANGED <<data, state>>
    /\ UNCHANGED <<env, cfgVars, i2c, profile, profile_dur, client,
                   warmed, slept, sleeps, cycle, points, inflight, writes>>

\* Variant of CheckState: the validity of the reading is not looked at.
CheckState_Ungated ==
    /\ pc = "check_state"
    /\ pc' = "build_point"
    /\ UNCHANGED <<env, ret, log, result, cfgVars, hwVars, warmed, slept, sleeps, loopVars>>

\* Variant of CheckState: a reading without new data is an error.
CheckState_Strict ==
    /\ pc = "check_state"
    /\ IF state = "NewData"
       THEN pc' = "build_point" /\ UNCHANGED <<ret, log, result>>
       ELSE Fail("No new data")
    /\ UNCHANGED <<env, cfgVars, hwVars, warmed, slept, sleeps, loopVars>>

\* Variant of CheckState: a reading without new data `continue`s the loop.
CheckState_Continue ==
    /\ pc = "check_state"
    /\ pc' = IF state = "NewData" THEN "build_point" ELSE "set_sensor_mode"
    /\ UNCHANGED <<env, ret, log, result, cfgVars, hwVars, warmed, slept, sleeps, loopVars>>

\* if state == FieldDataCondition::NewData { .. }
CheckState ==
    /\ pc = "check_state"
    /\ pc' = IF state = "NewData" THEN "build_point" ELSE "sleep"
    /\ UNCHANGED <<env, ret, log, result, cfgVars, hwVars, warmed, slept, sleeps, loopVars>>

\* Variant of BuildPoint: a point that cannot be built is logged and the
\* points built so far are written.
BuildPoint_Partial ==
    /\ pc = "build_point"
    /\ LET k == Len(points) + 1
       IN \E ok \in BOOLEAN :
             IF ok
             THEN /\ Pass(IF k = Len(PointNames) THEN "write" ELSE "build_point")
                  /\ points' = Append(points,
                                  DataPoint(PointNames[k], host_tag, FieldValue(data, k)))
             ELSE /\ ret' = "Err" /\ log' = PointErrors[k] /\ pc' = "write"
                  /\ UNCHANGED <<result, points>>
    /\ UNCHANGED <<env, cfgVars, hwVars, warmed, slept, sleeps,
                   cycle, data, state, inflight, writes>>

\* The next element of vec![..]: DataPoint::builder(..)...build().map_err(..)?
BuildPoint ==
    /\ pc = "build_point"
    /\ LET k == Len(points) + 1
       IN \E ok \in BOOLEAN :
             IF ok
             THEN /\ Pass(IF k = Len(PointNames) THEN "write" ELSE "build_point")
                  /\ points' = Append(points,
                                  DataPoint(PointNames[k], host_tag, FieldValue(data, k)))
             ELSE /\ Fail(PointErrors[k])
                  /\ UNCHANGED points
    /\ UNCHANGED <<env, cfgVars, hwVars, warmed, slept, sleeps,
                   cycle, data, state, inflight, writes>>

\* Variant of Write: the write is started and not awaited.
Write_Detached ==
    /\ pc = "write"
    /\ writes' = Append(writes, [cycle |-> cycle, org |-> influx_organization,
                                 bucket |-> influx_bucket, points |-> points])
    /\ inflight' = inflight + 1
    /\ pc' = "sleep"
    /\ UNCHANGED <<env, ret, log, result, cfgVars, hwVars, warmed, slept, sleeps,
                   cycle, data, state, points>>

\* client.write(&influx_organization, &influx_bucket, stream::iter(points))
\* is called and main() suspends on it.
Write ==
    /\ pc = "write"
    /\ writes' = Append(writes, [cycle |-> cycle, org |-> influx_organization,
                                 bucket |-> influx_bucket, points |-> points])
    /\ inflight' = inflight + 1
    /\ pc' = "write_await"
    /\ UNCHANGED <<env, ret, log, result, cfgVars, hwVars, warmed, slept, sleeps,
                   cycle, data, state, points>>

\* Variant of WriteAwait: the write error is propagated with `?`.
WriteAwait_Propagated ==
    /\ pc = "write_await"
    /\ inflight' = inflight - 1
    /\ \E ok \in BOOLEAN :
          IF ok
          THEN Pass("sleep")
          ELSE Fail("Failed to write data points to influxdb")
    /\ UNCHANGED <<env, cfgVars, hwVars, warmed, slept, sleeps,
                   cycle, data, state, points, writes>>

\* Variant of WriteAwait: a failed write is sent again.
WriteAwait_Retried ==
    /\ pc = "write_await"
    /\ inflight' = inflight - 1
    /\ \E ok \in BOOLEAN :
          /\ ret' = IF ok THEN "Ok" ELSE "Err"
          /\ log' = IF ok THEN log ELSE "Failed to write data points to influxdb"
          /\ pc' = IF ok THEN "sleep" ELSE "write"
    /\ UNCHANGED <<env, result, cfgVars, hwVars, warmed, slept, sleeps,
                   cycle, data, state, points, writes>>

\* .await completes; match { Ok(_) => (), Err(e) => error!(..) }
WriteAwait ==
    /\ pc = "write_await"
    /\ inflight' = inflight - 1
    /\ \E ok \in BOOLEAN :
          /\ ret' = IF ok THEN "Ok" ELSE "Err"
          /\ log' = IF ok THEN log ELSE "Failed to write data points to influxdb"
    /\ pc' = "sleep"
    /\ UNCHANGED <<env, result, cfgVars, hwVars, warmed, slept, sleeps,
                   cycle, data, state, points, writes>>

\* Variant of Sleep: the loop starts before the warm-up sleep.
Sleep_ThroughWarmUp ==
    /\ pc = "sleep"
    /\ slept' = profile_dur
    /\ sleeps' = sleeps + 1
    /\ pc' = "warmup_sleep"
    /\ UNCHANGED <<env, ret, log, result, cfgVars, hwVars, warmed, loopVars>>

\* sleep(profile_dur).await, then back to the top of the loop
Sleep ==
    /\ pc = "sleep"
    /\ slept' = profile_dur
    /\ sleeps' = sleeps + 1
    /\ pc' = "set_sensor_mode"
    /\ UNCHANGED <<env, ret, log, result, cfgVars, hwVars, warmed, loopVars>>

Next ==
    \/ LoadDotenv
    \/ LoadInfluxToken
    \/ LoadInfluxBucket
    \/ LoadInfluxAddress
    \/ LoadInfluxOrganization
    \/ LoadHostTag
    \/ LoadTemperatureOffset
    \/ OpenI2c
    \/ InitBme680
    \/ SetSensorSettings
    \/ GetProfileDur
    \/ TripleProfileDur
    \/ NewClient
    \/ WarmUp
    \/ SetSensorMode
    \/ GetSensorData
    \/ CheckState
    \/ BuildPoint
    \/ Write
    \/ WriteAwait
    \/ Sleep

Spec == Init /\ [][Next]_vars

TypeOK ==
    /\ env \in Environments
    /\ pc \in StartupPcs \cup LoopPcs \cup {"warmup_sleep", "exited"}
    /\ ret \in {"Ok", "Err"}
    /\ result \in {"running", "Err"}
    /\ host_tag \in {"", "unknown"} \cup HostInputs
    /\ temperature_offset \in Int
    /\ i2c \in BOOLEAN /\ client \in BOOLEAN
    /\ profile \in ProfileDurs /\ profile_dur \in Nat
    /\ warmed \in 0..1 /\ slept \in Nat /\ sleeps \in 0..MaxCycles
    /\ cycle \in 0..MaxCycles
    /\ state \in FieldDataCondition \cup {"none"}
    /\ Len(points) <= Len(PointNames)
    /\ inflight \in 0..1
    /\ Len(writes) <= cycle

\* -------------------------------------------------------------- properties
WriteError == "Failed to write data points to influxdb"

\* Number of client.write calls made in loop iteration c.
WritesIn(c) == Cardinality({i \in 1..Len(writes) : writes[i].cycle = c})

\* The iteration has run to its end: it reached the sleep, or main returned.
CycleOver == cycle >= 1 /\ pc \in {"sleep", "set_sensor_mode", "exited"}

\* C1: when set_sensor_mode or get_sensor_data fails in an iteration, the
\* failure is logged, nothing is written in that iteration, and the
\* iteration goes on to its sleep; main does not return.
C1_ReadFailureCycleLocal ==
    [][(pc \in {"set_sensor_mode", "get_sensor_data"} /\ ret' = "Err")
          => /\ log' \in {"Failed to set PowerMode::ForcedMode",
                          "Failed to get sensor reading"}
             /\ writes' = writes
             /\ pc' = "sleep"
             /\ result' = "running"]_vars

\* C2: when one of the four points cannot be built, the failure is logged,
\* nothing is written in that iteration, and the iteration goes on to its
\* sleep; main does not return.
C2_BuildFailureCycleLocal ==
    [][(pc = "build_point" /\ ret' = "Err")
          => /\ log' \in {PointErrors[k] : k \in 1..4}
             /\ writes' = writes
             /\ pc' = "sleep"
             /\ result' = "running"]_vars

\* C3: a client.write that returns Err is only logged: main keeps running,
\* goes to the sleep, and from the sleep to the next set_sensor_mode; main
\* never returns with the write error as its last message.
C3_PublishFailureNotFatal ==
    [][/\ ((pc = "write_await" /\ ret' = "Err")
            => (log' = WriteError /\ pc' = "sleep" /\ result' = "running"))
       /\ ((pc = "sleep" /\ log = WriteError)
            => (pc' = "set_sensor_mode" /\ result' = "running"))
       /\ (pc' = "exited" => log' # WriteError)]_vars

\* A write failed in iteration 1 and iteration 2 has triggered the sensor.
C3_Witness ==
    /\ cycle = 2 /\ dev.mode_sets = 2 /\ pc = "get_sensor_data"
    /\ log = WriteError /\ result = "running"

\* C4 as stated: in an iteration whose read succeeded, Unchanged means no
\* write and NewData means exactly one write, of four points.
C4_Original ==
    (CycleOver /\ state # "none")
       => IF state = "NewData"
          THEN /\ WritesIn(cycle) = 1
               /\ Len(writes[Len(writes)].points) = 4
          ELSE WritesIn(cycle) = 0

\* C4, amended: in an iteration whose read succeeded, a validity other than
\* NewData means no write; NewData with all four points built means exactly
\* one write, of four points; NewData with a point that failed to build
\* means no write.  No iteration writes twice.
C4_ValidityGating ==
    /\ \A c \in 1..MaxCycles : WritesIn(c) <= 1
    /\ (state \notin {"none", "NewData"}) => WritesIn(cycle) = 0
    /\ (CycleOver /\ state = "NewData" /\ Len(points) = 4)
          => /\ WritesIn(cycle) = 1
             /\ writes[Len(writes)].cycle = cycle
             /\ Len(writes[Len(writes)].points) = 4
    /\ (CycleOver /\ state = "NewData" /\ Len(points) < 4)
          => WritesIn(cycle) = 0

\* An iteration with NewData has written once, after one with Unchanged
\* that wrote nothing.
C4_Witness ==
    /\ cycle = 2 /\ pc = "sleep" /\ state = "NewData"
    /\ WritesIn(2) = 1 /\ WritesIn(1) = 0

\* C5: once the loop has been entered, main never returns.
C5_SamplingNeverTerminates ==
    warmed >= 1 => (pc # "exited" /\ result = "running")

\* A startup step whose failure is decided by the environment.
ConfigFault ==
    \/ pc = "dotenv" /\ ~env.dotenv_file
    \/ pc = "INFLUX_TOKEN" /\ ~env.INFLUX_TOKEN.ok
    \/ pc = "INFLUX_BUCKET" /\ ~env.INFLUX_BUCKET.ok
    \/ pc = "INFLUX_ADDRESS" /\ ~env.INFLUX_ADDRESS.ok
    \/ pc = "INFLUX_ORGANIZATION" /\ ~env.INFLUX_ORGANIZATION.ok
    \/ pc = "TEMP_OFFSET" /\ env.TEMP_OFFSET.ok
          /\ env.TEMP_OFFSET.val \in {<<"a", "b", "c">>, <<>>}

\* C6: a failing startup step makes main return Err at once; the step is
\* not run again, the warm-up and the loop are never entered, the sensor is
\* never set to forced mode and nothing is written.
C6_StartupFailureFatal ==
    [][/\ (pc \in StartupPcs /\ (ConfigFault \/ ret' = "Err"))
            => (/\ pc' = "exited" /\ result' = "Err" /\ log' # log
               /\ warmed' = 0 /\ cycle' = 0
               /\ dev'.mode_sets = 0 /\ dev'.reads = 0
               /\ dev'.settings <= 1
               /\ writes' = <<>> /\ inflight' = 0)
       /\ pc # "exited"]_vars

\* main returned because the profile duration could not be read.
C6_Witness ==
    /\ pc = "exited" /\ result = "Err"
    /\ log = "Failed to get profile duration"
    /\ dev.settings = 1 /\ warmed = 0

\* C7: in the loop, the interval is three times the profile duration the
\* sensor returned, hence at least that duration; 1500 ms gives 4500 ms.
C7_Cadence ==
    pc \in LoopPcs
       => /\ profile_dur = 3 * profile
          /\ profile_dur >= profile
          /\ profile = 1500 => profile_dur = 4500

\* The loop sleeps with 4500 ms for a profile of 1500 ms.
C7_Witness ==
    pc = "sleep" /\ profile = 1500 /\ profile_dur = 4500

\* C8: whatever the outcome of an iteration, the iteration ends with a
\* sleep of the interval computed at startup, the interval is unchanged,
\* and the loop goes on.
C8_SameIntervalEveryCycle ==
    [][(pc \in LoopPcs)
          => /\ profile_dur' = profile_dur
             /\ pc' \in LoopPcs
             /\ (pc = "sleep" => slept' = profile_dur)]_vars

\* C9: at most one write is in flight, and only while main is suspended on
\* it: none is in flight during the sleep, the trigger or the read.
C9_NoPipelining ==
    /\ inflight <= 1
    /\ inflight = 1 => pc = "write_await"
    /\ pc \in {"sleep", "set_sensor_mode", "get_sensor_data"} => inflight = 0

\* The write of the second iteration is in flight.
C9_Witness ==
    pc = "write_await" /\ inflight = 1 /\ cycle = 2 /\ Len(writes) = 2

\* C10: every batch written has exactly the four points temperature_c,
\* relative_humidity, pressure_hpa, gas_resistance_ohms in this order, each
\* with the one tag host, whose value is the host tag of the process.
C10_BatchShape ==
    \A i \in 1..Len(writes) :
       LET b == writes[i].points
       IN /\ Len(b) = 4
          /\ b[1].measurement = "temperature_c"
          /\ b[2].measurement = "relative_humidity"
          /\ b[3].measurement = "pressure_hpa"
          /\ b[4].measurement = "gas_resistance_ohms"
          /\ \A k \in 1..4 : b[k].tags = <<[key |-> "host", value |-> host_tag]>>
          /\ host_tag # ""

\* Two batches have been written, in two iterations.
C10_Witness ==
    /\ Len(writes) = 2 /\ writes[1].cycle = 1 /\ writes[2].cycle = 2
    /\ pc = "sleep"

\* C11: the warm-up sleep is made at most once, only after startup has
\* succeeded, and before any trigger, read or write; from the loop main
\* never comes back to it.
C11_WarmUpOnce ==
    /\ warmed <= 1
    /\ warmed = 0 => (dev.mode_sets = 0 /\ dev.reads = 0 /\ writes = <<>>
                      /\ cycle = 0 /\ sleeps = 0)
    /\ pc \in LoopPcs => warmed = 1
    /\ pc = "warmup_sleep"
          => (warmed = 0 /\ result = "running" /\ log = ""
              /\ dev.settings = 1 /\ dev.profile_durs = 1 /\ client)

\* The third iteration is at its sleep after the one warm-up.
C11_Witness ==
    warmed = 1 /\ cycle = 3 /\ pc = "sleep" /\ sleeps = 2

\* C12: set_sensor_settings is never called twice; it has been called once
\* when the warm-up or the loop is reached and before any trigger, and no
\* fault in the loop makes main call it again.
C12_ConfigureOnce ==
    /\ dev.settings <= 1
    /\ pc \in LoopPcs \cup {"warmup_sleep"} => dev.settings = 1
    /\ (dev.mode_sets >= 1 \/ warmed >= 1) => dev.settings = 1

\* Three triggers and a failed write after the one call.
C12_Witness ==
    /\ dev.settings = 1 /\ dev.mode_sets = 3 /\ cycle = 3
    /\ log = WriteError /\ pc = "get_sensor_data"

\* C13: the history of writes only grows, by one write at a time; a write
\* is made only in an iteration that has not written yet, and it carries
\* the values of the reading of this iteration.
C13_NoReplay ==
    [][(writes' # writes)
          => /\ pc = "write" /\ state = "NewData"
             /\ Len(writes') = Len(writes) + 1
             /\ SubSeq(writes', 1, Len(writes)) = writes
             /\ WritesIn(cycle) = 0
             /\ writes'[Len(writes')].cycle = cycle
             /\ Len(writes'[Len(writes')].points) = 4
             /\ \A k \in 1..4 :
                   writes'[Len(writes')].points[k].fields
                      = <<[key |-> "value", value |-> FieldValue(data, k)]>>]_vars

\* The write of iteration 1 failed and iteration 2 has written another
\* reading.
C13_Witness ==
    /\ cycle = 2 /\ pc = "write_await" /\ log = WriteError
    /\ Len(writes) = 2 /\ writes[1].points # writes[2].points

\* C14: without HOSTNAME startup goes on with the host tag "unknown" and
\* every point written carries host=unknown; without TEMP_OFFSET startup
\* goes on with the offset 0.
C14_Defaults ==
    [][/\ ((pc = "HOSTNAME" /\ ~env.HOSTNAME.ok)
             => (host_tag' = "unknown" /\ pc' = "TEMP_OFFSET"
                 /\ result' = "running" /\ log' = log))
       /\ ((pc = "TEMP_OFFSET" /\ ~env.TEMP_OFFSET.ok)
             => (temperature_offset' = 0 /\ pc' = "I2cdev_new"
                 /\ result' = "running" /\ log' = log))
       /\ (~env.HOSTNAME.ok
             => \A i \in 1..Len(writes') : \A k \in 1..Len(writes'[i].points) :
                   writes'[i].points[k].tags
                      = <<[key |-> "host", value |-> "unknown"]>>)]_vars

\* A batch has been written with neither HOSTNAME nor TEMP_OFFSET set.
C14_Witness ==
    /\ ~env.HOSTNAME.ok /\ ~env.TEMP_OFFSET.ok
    /\ Len(writes) = 1 /\ host_tag = "unknown" /\ temperature_offset = 0

\* C15: a reading whose validity is not NewData leads to the sleep with no
\* write, no error logged and main still running.
C15_NoNewDataIsNormal ==
    [][/\ ((pc = "check_state" /\ state # "NewData")
             => (pc' = "sleep" /\ log' = log /\ ret' = ret
                 /\ result' = "running" /\ writes' = writes /\ inflight' = 0))
       /\ ((pc = "sleep" /\ state # "NewData")
             => (pc' = "set_sensor_mode" /\ result' = "running"
                 /\ writes' = writes))]_vars

\* Three iterations in a row without new data, and the loop is running.
C15_Witness ==
    /\ cycle = 3 /\ pc = "sleep" /\ state = "Unchanged" /\ dev.reads = 3
    /\ writes = <<>> /\ log = "" /\ sleeps = 2 /\ result = "running"

\* C16: while the loop runs, the number of completed sleeps of the interval
\* is the number of triggers when main is about to trigger, and one less
\* after the trigger: one sleep between two triggers, whatever the
\* iteration did.
C16_OneSleepBetweenTriggers ==
    /\ dev.mode_sets = cycle
    /\ pc = "set_sensor_mode" => sleeps = cycle
    /\ pc \in LoopPcs \ {"set_sensor_mode"} => sleeps = cycle - 1
    /\ sleeps >= 1 => slept = profile_dur

\* The third trigger was made after an iteration without new data and one
\* whose write failed.
C16_Witness ==
    /\ cycle = 3 /\ pc = "get_sensor_data" /\ sleeps = 2
    /\ Len(writes) = 1 /\ writes[1].cycle = 2 /\ log = WriteError

\* C17: a read is made only right after the mode set of the same iteration
\* returned Ok, one read for one mode set; a mode set is made only when
\* every earlier one had its read; a write is made only after the read.
C17_ModeSetBeforeRead ==
    [][/\ (dev'.reads # dev.reads
             => (pc = "get_sensor_data" /\ ret = "Ok"
                 /\ dev'.reads = dev.reads + 1
                 /\ dev.mode_sets = dev.reads + 1))
       /\ (dev'.mode_sets # dev.mode_sets
             => (pc = "set_sensor_mode"
                 /\ dev'.mode_sets = dev.mode_sets + 1
                 /\ dev.mode_sets = dev.reads))
       /\ ((pc = "set_sensor_mode" /\ ret' = "Err")
             => pc' \notin {"get_sensor_data", "check_state", "build_point",
                            "write", "write_await"})
       /\ (writes' # writes => dev.reads = dev.mode_sets)]_vars

\* The third mode set failed: two reads for three mode sets.
C17_Witness ==
    /\ dev.mode_sets = 3 /\ dev.reads = 2
    /\ log = "Failed to set PowerMode::ForcedMode"

\* The error message that names the step main() is at.
StepError ==
    CASE pc = "dotenv" -> "Failed to load .env file for configuration"
      [] pc = "INFLUX_TOKEN" -> "Failed to load INFLUX_TOKEN"
      [] pc = "INFLUX_BUCKET" -> "Failed to load INFLUX_BUCKET"
      [] pc = "INFLUX_ADDRESS" -> "Failed to load INFLUX_ADDRESS"
      [] pc = "INFLUX_ORGANIZATION" -> "Failed to load INFLUX_ORGANIZATION"
      [] pc = "TEMP_OFFSET" -> "Failed to load temp offset from TEMP_OFFSET"
      [] pc = "I2cdev_new" -> "Failed to load I2C device"
      [] pc = "Bme680_init" -> "Failed to init BME680."
      [] pc = "set_sensor_settings" -> "Failed to set BME680 sensor settings."
      [] pc = "get_profile_dur" -> "Failed to get profile duration"
      [] pc = "set_sensor_mode" -> "Failed to set PowerMode::ForcedMode"
      [] pc = "get_sensor_data" -> "Failed to get sensor reading"
      [] pc = "build_point" /\ Len(points) = 0
            -> "Failed to create data point temperature_c"
      [] pc = "build_point" /\ Len(points) = 1
            -> "Failed to create data point relative_humidity"
      [] pc = "build_point" /\ Len(points) = 2
            -> "Failed to create data point pressure_hpa"
      [] pc = "build_point" /\ Len(points) = 3
            -> "Failed to create data point gas_resistance_ohms"
      [] OTHER -> "no fallible step"

\* C18: main never returns Ok: whenever it returns, it returns Err, and the
\* last error logged is the one of the step that failed.
C18_ExitIsLoggedFailure ==
    [][(pc' = "exited" /\ pc # "exited")
          => (result' = "Err" /\ ret' = "Err" /\ log' = StepError)]_vars

\* The configuration the startup needs is all there and parsable.
ConfigComplete ==
    /\ env.dotenv_file
    /\ env.INFLUX_TOKEN.ok /\ env.INFLUX_BUCKET.ok
    /\ env.INFLUX_ADDRESS.ok /\ env.INFLUX_ORGANIZATION.ok
    /\ env.TEMP_OFFSET.ok
          => env.TEMP_OFFSET.val \in {<<"1", ".", "5">>, <<"-", "2">>}

\* C19: the bus is open only if the whole configuration was resolved, the
\* sensor is initialised only on an open bus, the settings are applied only
\* to an initialised sensor, the profile is queried only after the settings
\* were accepted, the client is built only after the profile was returned;
\* with an incomplete configuration the bus and the sensor are untouched.
C19_StartupOrder ==
    /\ i2c => /\ ConfigComplete
              /\ influx_token = env.INFLUX_TOKEN.val
              /\ influx_bucket = env.INFLUX_BUCKET.val
              /\ influx_address = env.INFLUX_ADDRESS.val
              /\ influx_organization = env.INFLUX_ORGANIZATION.val
              /\ host_tag # ""
    /\ (dev.inited \/ pc = "Bme680_init") => i2c
    /\ dev.settings >= 1 => dev.inited
    /\ dev.profile_durs >= 1
          => (dev.settings = 1 /\ log # "Failed to set BME680 sensor settings.")
    /\ dev.profile_durs <= 1
    /\ client => (dev.profile_durs = 1 /\ log # "Failed to get profile duration")
    /\ ~ConfigComplete
          => (~i2c /\ ~dev.inited /\ dev.settings = 0 /\ dev.profile_durs = 0
              /\ dev.mode_sets = 0 /\ dev.reads = 0 /\ ~client)

\* main returned on an unparsable TEMP_OFFSET with everything else set, and
\* the bus was never opened.
C19_Witness ==
    /\ pc = "exited" /\ log = "Failed to load temp offset from TEMP_OFFSET"
    /\ env.INFLUX_TOKEN.ok /\ env.HOSTNAME.ok
    /\ ~i2c /\ ~dev.inited /\ dev.settings = 0

====
